---- MODULE Spec2Model ----
(***************************************************************************)
(* Key Jump: the in-page hint engine (label generation, candidate scan,    *)
(* the activation/typing state machine, overlays and click synthesis),     *)
(* driven by the capturing keydown listener of the content script.         *)
(***************************************************************************)
EXTENDS Integers, Sequences, FiniteSets, TLC

VARIABLES
    href,             \* window.location.href of the hosting page
    page,             \* index into Pages: the document the host page shows now
    activeElement,    \* document.activeElement
    HintState,        \* the session variable (tagged record)
    nodes,            \* heap of overlay <div> nodes: id -> [hint, display]
    containerExists,  \* document.getElementById(HintContainerId) # null
    container,        \* children of the hint container, in order (node ids)
    lastEvent,        \* the keydown event the listener has just handled
    defaultPrevented, \* preventDefault()/stopPropagation() called on lastEvent
    lastClick,        \* the click the handler of lastEvent dispatched
    thrown,           \* an exception escaped the handler of lastEvent
    count,            \* generateHintLabels: parameter
    i,                \* generateHintLabels: loop counter
    labels,           \* generateHintLabels: the array being filled
    pc,               \* generateHintLabels: "idle", "loop" or "returned"
    siteConfigs,      \* storage.sync item "siteConfigs": hostname -> stored config
    popups,           \* the open settings popups: their toggle, status text and
                      \* the position of their change handler
    resolution,       \* what getConfig returned for href when the page loaded
    listening,        \* the content script has installed its keydown listener
    CurrentSiteConfig \* the content script's constant: Null until its
                      \* initialiser has run

engineVars == <<href, page, activeElement, HintState, nodes, containerExists,
                container, lastEvent, defaultPrevented, lastClick, thrown>>
labelVars == <<count, i, labels, pc>>
configVars == <<siteConfigs, popups, resolution, listening, CurrentSiteConfig>>
vars == <<href, page, activeElement, HintState, nodes, containerExists,
          container, lastEvent, defaultPrevented, lastClick, thrown,
          count, i, labels, pc, siteConfigs, popups, resolution, listening,
          CurrentSiteConfig>>

\* Bounds of the model.
MaxCount == 24

\* One count past the last two-character label.
LargeCount == 307

(***************************************************************************)
(* Strings are sequences of one-character strings.                         *)
(***************************************************************************)
Range(s) == {s[k] : k \in DOMAIN s}

Max(S) == CHOOSE x \in S : \A y \in S : y <= x

\* String.prototype.startsWith
startsWith(s, prefix) ==
    /\ Len(prefix) <= Len(s)
    /\ SubSeq(s, 1, Len(prefix)) = prefix
\* A slice that drops nothing.
sliceWhole(s) == s

\* String.prototype.slice(0, -1)
sliceDropLast(s) == IF Len(s) = 0 THEN s ELSE SubSeq(s, 1, Len(s) - 1)

\* String.prototype.includes
includes(s, pattern) ==
    \E k \in 0..(Len(s) - Len(pattern)) : SubSeq(s, k + 1, k + Len(pattern)) = pattern

\* String.prototype.toLowerCase on the key names the model delivers
toLowerCase(s) ==
    CASE s = "A" -> "a"
      [] s = "S" -> "s"
      [] s = "X" -> "x"
      [] s = "Escape" -> "escape"
      [] s = "Backspace" -> "backspace"
      [] OTHER -> s

(***************************************************************************)
(* Constant tables of the content script.                                  *)
(***************************************************************************)
HintCharacters ==
    <<"a", "s", "d", "f", "g", "h", "j", "k", "l", "q", "w", "e", "r", "u", "i", "o", "p">>

MenuSelectors == <<"[role=\"menuitem\"]", "[role=\"option\"]", "a[href]", "button">>

\* ActivationKeys with the shift and ctrl rows exchanged.
ActivationKeysSwapped ==
    [ k \in {"Semicolon", "shift+Semicolon", "ctrl+Semicolon", "ctrl+shift+Semicolon"} |->
        CASE k = "Semicolon" -> [clickMode |-> "left", scope |-> "configured"]
          [] k = "shift+Semicolon" -> [clickMode |-> "left", scope |-> "all"]
          [] k = "ctrl+Semicolon" -> [clickMode |-> "right", scope |-> "configured"]
          [] k = "ctrl+shift+Semicolon" -> [clickMode |-> "right", scope |-> "all"] ]

\* The table ActivationKeys, by lookup key.
ActivationKeys ==
    [ k \in {"Semicolon", "shift+Semicolon", "ctrl+Semicolon", "ctrl+shift+Semicolon"} |->
        CASE k = "Semicolon" -> [clickMode |-> "left", scope |-> "configured"]
          [] k = "shift+Semicolon" -> [clickMode |-> "right", scope |-> "configured"]
          [] k = "ctrl+Semicolon" -> [clickMode |-> "left", scope |-> "all"]
          [] k = "ctrl+shift+Semicolon" -> [clickMode |-> "right", scope |-> "all"] ]

(***************************************************************************)
(* Site configuration (config.ts as imported by the content script).       *)
(***************************************************************************)
DefaultConfig ==
    [ name |-> "Default",
      urlPattern |-> <<"*">>,
      configuredSelectors |->
        <<"a[href]", "button", "[role=\"button\"]", "[role=\"menuitem\"]",
          "[role=\"option\"]", "[role=\"tab\"]", "[role=\"link\"]">>,
      allSelectors |->
        <<"a[href]", "button", "[role=\"button\"]", "[role=\"menuitem\"]",
          "[role=\"option\"]", "[role=\"tab\"]", "[role=\"link\"]",
          "input[type='button']", "input[type='submit']", "[onclick]">>,
      popupSelector |-> "" ]

MusicHost ==
    <<"m", "u", "s", "i", "c", ".", "y", "o", "u", "t", "u", "b", "e", ".", "c", "o", "m">>

ExampleHost == <<"e", "x", "a", "m", "p", "l", "e", ".", "c", "o", "m">>

SiteConfigs ==
    << [ name |-> "YouTube Music",
         urlPattern |-> MusicHost,
         configuredSelectors |->
           <<"ytmusic-responsive-list-item-renderer",
             "ytmusic-playlist-panel-video-renderer",
             "ytmusic-two-row-item-renderer",
             "ytmusic-menu-service-item-renderer",
             "ytmusic-toggle-menu-service-item-renderer",
             "ytmusic-player-bar yt-icon-button",
             "ytmusic-player-bar button",
             "ytmusic-like-button-renderer button",
             "ytmusic-menu-renderer button">>,
         allSelectors |->
           <<"ytmusic-responsive-list-item-renderer",
             "ytmusic-playlist-panel-video-renderer",
             "ytmusic-two-row-item-renderer",
             "ytmusic-menu-service-item-renderer",
             "ytmusic-toggle-menu-service-item-renderer",
             "ytmusic-player-bar yt-icon-button",
             "ytmusic-player-bar button",
             "ytmusic-like-button-renderer button",
             "ytmusic-menu-renderer button",
             "a[href]", "button", "[role=\"button\"]", "[role=\"menuitem\"]",
             "[role=\"option\"]", "[role=\"tab\"]", "[role=\"link\"]",
             "yt-icon-button", "yt-button-shape button", "tp-yt-paper-icon-button">>,
         popupSelector |-> "ytmusic-menu-popup-renderer" ] >>

\* A selector that querySelectorAll rejects with a SyntaxError.
MalformedSelector == "a[href"

BrokenHost == <<"b", "r", "o", "k", "e", "n", ".", "t", "e", "s", "t">>

\* A site configuration whose curated list holds a malformed selector: what
\* the registry becomes when such an entry is added to it.
MalformedSiteConfig ==
    [ name |-> "Broken",
      urlPattern |-> BrokenHost,
      configuredSelectors |-> <<"button", MalformedSelector>>,
      allSelectors |-> DefaultConfig.allSelectors,
      popupSelector |-> "" ]

\* The registry getConfigForUrl searches: SiteConfigs and the added entry.
RegisteredSiteConfigs == SiteConfigs \o <<MalformedSiteConfig>>

\* A location string that new URL() rejects.
UnparseableLocation == [unparseable |-> TRUE]

\* new URL(url) does not throw
canParse(url) == "hostname" \in DOMAIN url

\* The TypeError of new URL(url), leaving the caller.
TypeErrorThrown == [threw |-> "TypeError"]

\* The page locations of the model: [hostname |-> ...] is what new URL(url) parses.
Urls == { [hostname |-> MusicHost], [hostname |-> ExampleHost] }

getConfigForUrl(url) ==
    LET hostname == url.hostname
        found == {k \in DOMAIN RegisteredSiteConfigs :
                    includes(hostname, RegisteredSiteConfigs[k].urlPattern)}
    IN IF ~canParse(url) THEN TypeErrorThrown
       ELSE IF found # {}
       THEN RegisteredSiteConfigs[CHOOSE k \in found : \A m \in found : k <= m]
       ELSE DefaultConfig

(***************************************************************************)
(* Persisted site configuration (config.ts as imported by the settings     *)
(* popup): the store, its accessors and the asynchronous resolution.       *)
(***************************************************************************)
\* null
Null == [isNull |-> TRUE]

\* { enabled: false }, what the popup writes when its toggle is switched off
DisabledMarker == [enabled |-> FALSE]

DefaultConfigEnabled ==
    [ enabled |-> TRUE,
      name |-> "Default",
      urlPattern |-> <<"*">>,
      selectors |->
        <<"a[href]", "button", "[role=\"button\"]", "[role=\"menuitem\"]",
          "[role=\"option\"]", "[role=\"tab\"]", "[role=\"link\"]",
          "input[type='button']", "input[type='submit']">>,
      popupSelector |-> "" ]

BuiltInSiteConfigs ==
    << [ enabled |-> TRUE,
         name |-> "YouTube Music",
         urlPattern |-> MusicHost,
         selectors |->
           <<"ytmusic-responsive-list-item-renderer",
             "ytmusic-playlist-panel-video-renderer",
             "ytmusic-two-row-item-renderer",
             "ytmusic-menu-service-item-renderer",
             "ytmusic-toggle-menu-service-item-renderer",
             "ytmusic-player-bar yt-icon-button",
             "ytmusic-player-bar button",
             "ytmusic-like-button-renderer button",
             "ytmusic-menu-renderer button",
             "a[href]", "button", "[role=\"button\"]", "[role=\"menuitem\"]",
             "[role=\"option\"]", "[role=\"tab\"]", "[role=\"link\"]",
             "yt-icon-button", "yt-button-shape button", "tp-yt-paper-icon-button">>,
         popupSelector |-> "ytmusic-menu-popup-renderer" ] >>

\* An enabled override of the store's value type, carrying custom selectors.
CustomOverride ==
    [ enabled |-> TRUE,
      name |-> "Custom",
      urlPattern |-> ExampleHost,
      selectors |-> <<"a[href]">>,
      popupSelector |-> "" ]

\* A hostname that contains the built-in pattern without being equal to it.
MobileMusicHost == <<"m", ".">> \o MusicHost

ConfigUrls == Urls \cup { [hostname |-> MobileMusicHost] }

EmptyStore == [h \in {} |-> Null]

\* The values of the persisted map the model starts from: at most one entry.
Stores ==
    UNION { [S -> {DisabledMarker, CustomOverride}] :
              S \in {{}} \cup {{u.hostname} : u \in ConfigUrls} }

\* getStoredConfig on the value configs read from the store
getStoredConfig(configs, hostname) ==
    IF hostname \in DOMAIN configs THEN configs[hostname] ELSE Null

\* setStoredConfig between its two awaits: the update of the map it has read
updateConfigs(configs, hostname, config) ==
    IF config = Null
    THEN [h \in DOMAIN configs \ {hostname} |-> configs[h]]
    ELSE [h \in DOMAIN configs \cup {hostname} |->
            IF h = hostname THEN config ELSE configs[h]]

\* getConfig on the value configs read from the store
getConfig(url, configs) ==
    LET hostname == url.hostname
        stored == getStoredConfig(configs, hostname)
        found == {k \in DOMAIN BuiltInSiteConfigs :
                    includes(hostname, BuiltInSiteConfigs[k].urlPattern)}
    IN IF ~canParse(url) THEN TypeErrorThrown
       ELSE IF stored = Null
       THEN IF found # {}
            THEN BuiltInSiteConfigs[CHOOSE k \in found : \A m \in found : k <= m]
            ELSE DefaultConfigEnabled
       ELSE stored

\* The settings popups of the model.
Popups == {1, 2}

\* The popup has not switched its toggle off.
NoHistory == [none |-> TRUE]

\* A popup's record: pc, hostname, checked, status and the map read by a
\* setStoredConfig call in progress are the popup's own state; before is the
\* history of its toggle, the entry its hostname had in the map read by the
\* last switch-off, until the toggle is switched on again.
ClosedPopup ==
    [ pc |-> "closed", hostname |-> <<>>, checked |-> FALSE, status |-> "",
      configs |-> EmptyStore, before |-> NoHistory ]

\* The content script has run on href; no popup is open and nothing is
\* persisted.
ConfigIdle ==
    /\ siteConfigs = EmptyStore
    /\ popups = [p \in Popups |-> ClosedPopup]
    /\ resolution = Null
    /\ listening = TRUE
    /\ CurrentSiteConfig = getConfigForUrl(href)

(***************************************************************************)
(* The host document: elements with what the scan reads of them.           *)
(***************************************************************************)
Viewport == [innerWidth |-> 10, innerHeight |-> 10]

Rect(t, l, w, h) ==
    [top |-> t, left |-> l, width |-> w, height |-> h, bottom |-> t + h, right |-> l + w]

\* A laid-out, visible HTML element matching the selectors sel.
Html(sel, popup) ==
    [ ns |-> "html", matches |-> sel, inPopup |-> popup, rect |-> Rect(1, 1, 2, 2),
      visibility |-> "visible", display |-> "block" ]

\* Element ids 11 to 30 are plain visible links.
ElementProps(id) ==
    CASE id = 1 -> Html({"a[href]"}, FALSE)
      [] id = 2 -> Html({"button"}, FALSE)
      [] id = 3 -> [Html({"a[href]"}, FALSE) EXCEPT !.ns = "svg"]
      [] id = 4 -> Html({"[onclick]"}, FALSE)
      [] id = 5 -> [Html({"button"}, FALSE) EXCEPT !.visibility = "hidden"]
      [] id = 6 -> Html({"[role=\"menuitem\"]", "ytmusic-menu-service-item-renderer"}, TRUE)
      [] id = 7 -> Html({"button"}, TRUE)
      [] id = 8 -> [Html({"button"}, FALSE) EXCEPT !.rect = Rect(1, 1, 0, 2)]
      [] id = 9 -> [Html({"a[href]"}, FALSE) EXCEPT !.rect = Rect(1, 1, 2, 0)]
      [] id = 10 -> [Html({"button"}, FALSE) EXCEPT !.display = "none"]
      [] id = 41 -> [Html({"a[href]"}, FALSE) EXCEPT !.rect = Rect(-1, 1, 2, 2)]
      [] id = 42 -> [Html({"a[href]"}, FALSE) EXCEPT !.rect = Rect(9, 1, 2, 2)]
      [] id = 43 -> [Html({"button"}, FALSE) EXCEPT !.rect = Rect(1, -1, 2, 2)]
      [] id = 44 -> [Html({"button"}, FALSE) EXCEPT !.rect = Rect(1, 9, 2, 2)]
      [] id = 45 -> [Html({"[role=\"menuitem\"]"}, TRUE) EXCEPT !.visibility = "hidden"]
      [] id = 46 -> [Html({"[role=\"option\"]"}, TRUE) EXCEPT !.rect = Rect(9, 9, 2, 2)]
      [] id = 48 -> Html({"[role=\"tab\"]"}, TRUE)
      [] id = 49 -> Html({"ytmusic-responsive-list-item-renderer"}, FALSE)
      [] id = 51 -> [Html({"[role=\"menuitem\"]", "ytmusic-menu-service-item-renderer"}, TRUE)
                       EXCEPT !.rect = Rect(0, 0, 0, 0)]
      [] id = 52 -> [Html({"button"}, TRUE) EXCEPT !.rect = Rect(0, 0, 0, 0)]
      [] OTHER -> Html({"a[href]"}, FALSE)

\* popup: the element matching the popup selector is "absent", "hidden"
\* (in the DOM, offsetParent null: its descendants have empty boxes) or
\* "visible" (offsetParent not null).
Pages ==
    << [elements |-> <<>>, popup |-> "absent"],
       [elements |-> <<2>>, popup |-> "absent"],
       [elements |-> <<1, 3, 2, 4, 5, 8, 9, 10, 41, 42, 43, 44>>, popup |-> "absent"],
       [elements |-> [k \in 1..20 |-> 10 + k], popup |-> "absent"],
       [elements |-> <<1, 49, 6, 45, 7, 46, 48>>, popup |-> "visible"],
       [elements |-> <<1, 49, 51, 52>>, popup |-> "hidden"] >>

document == Pages[page]

\* The focus targets of the model, as document.activeElement reports them.
FocusTargets ==
    { [isNull |-> TRUE, tagName |-> "", isContentEditable |-> FALSE],
      [isNull |-> FALSE, tagName |-> "BODY", isContentEditable |-> FALSE],
      [isNull |-> FALSE, tagName |-> "INPUT", isContentEditable |-> FALSE],
      [isNull |-> FALSE, tagName |-> "TEXTAREA", isContentEditable |-> FALSE],
      [isNull |-> FALSE, tagName |-> "DIV", isContentEditable |-> TRUE] }

tagNameLower(t) ==
    CASE t = "BODY" -> "body"
      [] t = "INPUT" -> "input"
      [] t = "TEXTAREA" -> "textarea"
      [] t = "DIV" -> "div"
      [] OTHER -> t

(***************************************************************************)
(* Keyboard events.                                                        *)
(***************************************************************************)
Codes == {"Semicolon", "KeyA", "KeyS", "KeyX", "Escape", "Backspace"}

\* KeyboardEvent.key for a physical key on a US layout.
KeyOf(code, shift) ==
    CASE code = "Semicolon" -> IF shift THEN ":" ELSE ";"
      [] code = "KeyA" -> IF shift THEN "A" ELSE "a"
      [] code = "KeyS" -> IF shift THEN "S" ELSE "s"
      [] code = "KeyX" -> IF shift THEN "X" ELSE "x"
      [] code = "Escape" -> "Escape"
      [] code = "Backspace" -> "Backspace"

KeyboardEvent(c, ct, sh, al, me) ==
    [code |-> c, key |-> KeyOf(c, sh), ctrlKey |-> ct, shiftKey |-> sh,
     altKey |-> al, metaKey |-> me]

\* The keydowns of the model: the activation key under every modifier set,
\* the other keys plain and shifted.
KeyboardEvents ==
    { KeyboardEvent("Semicolon", ct, sh, al, me) :
        ct \in BOOLEAN, sh \in BOOLEAN, al \in BOOLEAN, me \in BOOLEAN }
    \cup { KeyboardEvent(c, FALSE, sh, FALSE, FALSE) :
        c \in Codes \ {"Semicolon"}, sh \in BOOLEAN }

NoEvent ==
    [code |-> "", key |-> "", ctrlKey |-> FALSE, shiftKey |-> FALSE,
     altKey |-> FALSE, metaKey |-> FALSE]

NoClick == [element |-> 0, type |-> "none"]

(***************************************************************************)
(* generateHintLabels                                                      *)
(***************************************************************************)
\* An alphabet size that is one short.
baseOneShort == Len(HintCharacters) - 1

base == Len(HintCharacters)

RECURSIVE doWhileStandardBase(_, _)
\* The positional base-17 digits of n: no "- 1" between two digits.
doWhileStandardBase(label, n) ==
    LET label2 == <<HintCharacters[(n % base) + 1]>> \o label
        n2 == n \div base
    IN IF n2 > 0 THEN doWhileStandardBase(label2, n2) ELSE label2

RECURSIVE doWhile(_, _)
\* do { label = HintCharacters[n % base] + label; n = floor(n / base) - 1 } while (n >= 0)
doWhile(label, n) ==
    LET label2 == <<HintCharacters[(n % base) + 1]>> \o label
        n2 == (n \div base) - 1
    IN IF n2 >= 0 THEN doWhile(label2, n2) ELSE label2

\* A loop body that keeps only the last digit.
nextLabelLastDigit(n) == <<HintCharacters[(n % base) + 1]>>

\* The body of the for loop: the label pushed for loop counter n.
nextLabel(n) == doWhile(<<>>, n)

\* A loop condition that runs one iteration too many.
loopConditionInclusive(lbls, cnt) == Len(lbls) <= cnt

\* The condition of the for loop.
loopCondition(lbls, cnt) == Len(lbls) < cnt

RECURSIVE forLoop(_, _, _)
forLoop(lbls, n, cnt) ==
    IF loopCondition(lbls, cnt) THEN forLoop(Append(lbls, nextLabel(n)), n + 1, cnt)
    ELSE lbls

generateHintLabels(cnt) == forLoop(<<>>, 0, cnt)

(***************************************************************************)
(* The hint engine.  The handlers run synchronously inside the keydown     *)
(* listener; they are operators over the mutable world they touch:         *)
(* [HintState, nodes, containerExists, container].                         *)
(***************************************************************************)
Inactive == [status |-> "inactive"]

EmptyMap == [h \in {} |-> 0]

World ==
    [HintState |-> HintState, nodes |-> nodes,
     containerExists |-> containerExists, container |-> container]

\* What one run of the listener leaves behind.
Result(w, prevented, click, thr) ==
    [world |-> w, defaultPrevented |-> prevented, click |-> click, thrown |-> thr]

\* querySelectorAll(selectors.join(", ")) over the elements elems, in document order
querySelectorAll(elems, selectors) ==
    LET Test(e) == \E k \in DOMAIN selectors : selectors[k] \in ElementProps(e).matches
    IN SelectSeq(elems, Test)

\* The filter without the viewport test.
isVisibleAnywhere(e) ==
    LET rect == ElementProps(e).rect
        style == ElementProps(e)
    IN /\ rect.width > 0
       /\ rect.height > 0
       /\ style.visibility # "hidden"
       /\ style.display # "none"

\* The filter of getClickableElements.
isVisible(e) ==
    LET rect == ElementProps(e).rect
        style == ElementProps(e)
    IN /\ rect.width > 0
       /\ rect.height > 0
       /\ style.visibility # "hidden"
       /\ style.display # "none"
       /\ rect.top >= 0
       /\ rect.bottom <= Viewport.innerHeight
       /\ rect.left >= 0
       /\ rect.right <= Viewport.innerWidth
\* getClickableElements that never scopes to the popup.
getClickableElementsNoPopup(state) ==
    LET selectors == IF state.scope = "configured"
                     THEN CurrentSiteConfig.configuredSelectors
                     ELSE CurrentSiteConfig.allSelectors
    IN SelectSeq(querySelectorAll(document.elements, selectors), isVisible)

\* getClickableElements that always scans with the exhaustive list.
getClickableElementsAllList(state) ==
    LET popup == /\ CurrentSiteConfig.popupSelector # ""
                 /\ document.popup = "visible"
        InPopup(e) == ElementProps(e).inPopup
        elements ==
            IF popup
            THEN querySelectorAll(SelectSeq(document.elements, InPopup), MenuSelectors)
            ELSE querySelectorAll(document.elements, CurrentSiteConfig.allSelectors)
    IN SelectSeq(elements, isVisible)

getClickableElements(state) ==
    LET popup == /\ CurrentSiteConfig.popupSelector # ""
                 /\ document.popup = "visible"
        InPopup(e) == ElementProps(e).inPopup
        elements ==
            IF popup
            THEN querySelectorAll(SelectSeq(document.elements, InPopup), MenuSelectors)
            ELSE LET selectors == IF state.scope = "configured"
                                  THEN CurrentSiteConfig.configuredSelectors
                                  ELSE CurrentSiteConfig.allSelectors
                 IN querySelectorAll(document.elements, selectors)
    IN SelectSeq(elements, isVisible)

\* getClickableElements throws: the selector list it joins and hands to
\* querySelectorAll holds a selector the parser rejects.
getClickableElementsThrows(state) ==
    LET popup == /\ CurrentSiteConfig.popupSelector # ""
                 /\ document.popup = "visible"
        selectors == IF popup THEN MenuSelectors
                     ELSE IF state.scope = "configured"
                     THEN CurrentSiteConfig.configuredSelectors
                     ELSE CurrentSiteConfig.allSelectors
    IN MalformedSelector \in Range(selectors)

\* The overlay node: data-hint and style.display (unset on creation).
createHintOverlay(label, element) == [hint |-> label, display |-> ""]
\* showHints that creates the overlays without appending them to the container.
showHintsDetached(w) ==
    LET state == w.HintState
        elements == getClickableElements(state)
        hintLabels == generateHintLabels(Len(elements))
        first == Max(DOMAIN w.nodes \cup {0})
        used == {k \in DOMAIN elements : k \in DOMAIN hintLabels /\ hintLabels[k] # <<>>}
        rank(k) == Cardinality({m \in used : m <= k})
        overlayIds == [r \in 1..Cardinality(used) |-> first + r]
        at(r) == CHOOSE k \in used : rank(k) = r
    IN IF Len(elements) = 0 THEN w
       ELSE [ HintState |->
                [state EXCEPT
                   !.hints = [h \in {hintLabels[k] : k \in used} |->
                                elements[Max({k \in used : hintLabels[k] = h})]],
                   !.overlays = state.overlays \o overlayIds],
              nodes |->
                [id \in DOMAIN w.nodes \cup Range(overlayIds) |->
                   IF id \in DOMAIN w.nodes THEN w.nodes[id]
                   ELSE createHintOverlay(hintLabels[at(id - first)], elements[at(id - first)])],
              containerExists |-> TRUE,
              container |-> w.container ]

showHints(w) ==
    LET state == w.HintState
        elements == getClickableElements(state)
        hintLabels == generateHintLabels(Len(elements))
        first == Max(DOMAIN w.nodes \cup {0})
        used == {k \in DOMAIN elements : k \in DOMAIN hintLabels /\ hintLabels[k] # <<>>}
        rank(k) == Cardinality({m \in used : m <= k})
        overlayIds == [r \in 1..Cardinality(used) |-> first + r]
        at(r) == CHOOSE k \in used : rank(k) = r
    IN IF Len(elements) = 0 THEN w
       ELSE [ HintState |->
                [state EXCEPT
                   !.hints = [h \in {hintLabels[k] : k \in used} |->
                                elements[Max({k \in used : hintLabels[k] = h})]],
                   !.overlays = state.overlays \o overlayIds],
              nodes |->
                [id \in DOMAIN w.nodes \cup Range(overlayIds) |->
                   IF id \in DOMAIN w.nodes THEN w.nodes[id]
                   ELSE createHintOverlay(hintLabels[at(id - first)], elements[at(id - first)])],
              containerExists |-> TRUE,
              container |-> w.container \o overlayIds ]

\* hideHints that resets the state and leaves the container as it is.
hideHintsKeepNodes(w) == [w EXCEPT !.HintState = Inactive]

hideHints(w) ==
    [w EXCEPT !.container = IF w.containerExists THEN <<>> ELSE @,
              !.HintState = Inactive]
\* updateHintVisibility that shows every overlay.
updateHintVisibilityShowAll(w) ==
    LET state == w.HintState
    IN [w EXCEPT !.nodes =
          [id \in DOMAIN w.nodes |->
             IF id \in Range(state.overlays)
             THEN [w.nodes[id] EXCEPT !.display = "block"]
             ELSE w.nodes[id]]]

updateHintVisibility(w) ==
    LET state == w.HintState
    IN [w EXCEPT !.nodes =
          [id \in DOMAIN w.nodes |->
             IF id \in Range(state.overlays)
             THEN [w.nodes[id] EXCEPT !.display =
                     IF startsWith(w.nodes[id].hint, state.typed) THEN "block" ELSE "none"]
             ELSE w.nodes[id]]]

\* The outcomes of executeClick.  An SVG element has no click() method (a
\* TypeError in left mode) and no offsetWidth: clientX is NaN, which the
\* MouseEvent constructor rejects or coerces depending on the browser.
executeClick(element, state) ==
    LET ok(type) == [click |-> [element |-> element, type |-> type], thrown |-> FALSE]
        throw == [click |-> NoClick, thrown |-> TRUE]
    IN IF state.clickMode = "right"
       THEN IF ElementProps(element).ns = "html" THEN {ok("contextmenu")}
            ELSE {ok("contextmenu"), throw}
       ELSE IF ElementProps(element).ns = "html" THEN {ok("click")}
            ELSE {throw}

setTyped(w, typed) == [w EXCEPT !.HintState.typed = typed]

\* handleActiveState that keeps a character no label starts with.
handleActiveStateKeepRejected(event, key, w) ==
    LET state == w.HintState
    IN IF key # "escape" /\ key # "backspace" /\ key \notin Range(HintCharacters)
       THEN {Result(w, FALSE, NoClick, FALSE)}
       ELSE CASE key = "escape" -> {Result(hideHints(w), TRUE, NoClick, FALSE)}
              [] key = "backspace" ->
                   {Result(updateHintVisibility(setTyped(w, sliceDropLast(state.typed))),
                           TRUE, NoClick, FALSE)}
              [] OTHER ->
                   LET candidateTyped == Append(state.typed, key)
                       matchingHints ==
                           {h \in DOMAIN state.hints : startsWith(h, candidateTyped)}
                       w2 == setTyped(w, candidateTyped)
                   IN IF Cardinality(matchingHints) = 1
                      THEN LET element == state.hints[CHOOSE h \in matchingHints : TRUE]
                           IN { IF o.thrown THEN Result(w2, TRUE, o.click, TRUE)
                                ELSE Result(hideHints(w2), TRUE, o.click, FALSE) :
                                  o \in executeClick(element, w2.HintState) }
                      ELSE {Result(updateHintVisibility(w2), TRUE, NoClick, FALSE)}

\* handleActiveState that intercepts every key before looking at it.
handleActiveStateInterceptAll(event, key, w) ==
    LET state == w.HintState
    IN IF key # "escape" /\ key # "backspace" /\ key \notin Range(HintCharacters)
       THEN {Result(w, TRUE, NoClick, FALSE)}
       ELSE CASE key = "escape" -> {Result(hideHints(w), TRUE, NoClick, FALSE)}
              [] key = "backspace" ->
                   {Result(updateHintVisibility(setTyped(w, sliceDropLast(state.typed))),
                           TRUE, NoClick, FALSE)}
              [] OTHER ->
                   LET candidateTyped == Append(state.typed, key)
                       matchingHints ==
                           {h \in DOMAIN state.hints : startsWith(h, candidateTyped)}
                       w2 == setTyped(w, candidateTyped)
                   IN IF matchingHints = {}
                      THEN {Result(w, TRUE, NoClick, FALSE)}
                      ELSE IF Cardinality(matchingHints) = 1
                      THEN LET element == state.hints[CHOOSE h \in matchingHints : TRUE]
                           IN { IF o.thrown THEN Result(w2, TRUE, o.click, TRUE)
                                ELSE Result(hideHints(w2), TRUE, o.click, FALSE) :
                                  o \in executeClick(element, w2.HintState) }
                      ELSE {Result(updateHintVisibility(w2), TRUE, NoClick, FALSE)}
\* handleActiveState that also clicks on an ambiguous match.
handleActiveStateClickOnAmbiguous(event, key, w) ==
    LET state == w.HintState
    IN IF key # "escape" /\ key # "backspace" /\ key \notin Range(HintCharacters)
       THEN {Result(w, FALSE, NoClick, FALSE)}
       ELSE CASE key = "escape" -> {Result(hideHints(w), TRUE, NoClick, FALSE)}
              [] key = "backspace" ->
                   {Result(updateHintVisibility(setTyped(w, sliceDropLast(state.typed))),
                           TRUE, NoClick, FALSE)}
              [] OTHER ->
                   LET candidateTyped == Append(state.typed, key)
                       matchingHints ==
                           {h \in DOMAIN state.hints : startsWith(h, candidateTyped)}
                       w2 == setTyped(w, candidateTyped)
                   IN IF matchingHints = {}
                      THEN {Result(w, TRUE, NoClick, FALSE)}
                      ELSE IF Cardinality(matchingHints) = 1
                      THEN LET element == state.hints[CHOOSE h \in matchingHints : TRUE]
                           IN { IF o.thrown THEN Result(w2, TRUE, o.click, TRUE)
                                ELSE Result(hideHints(w2), TRUE, o.click, FALSE) :
                                  o \in executeClick(element, w2.HintState) }
                      ELSE {Result(updateHintVisibility(w2), TRUE,
                                   [element |-> state.hints[CHOOSE h \in matchingHints : TRUE],
                                    type |-> "click"], FALSE)}

handleActiveState(event, key, w) ==
    LET state == w.HintState
    IN IF key # "escape" /\ key # "backspace" /\ key \notin Range(HintCharacters)
       THEN {Result(w, FALSE, NoClick, FALSE)}
       ELSE CASE key = "escape" -> {Result(hideHints(w), TRUE, NoClick, FALSE)}
              [] key = "backspace" ->
                   {Result(updateHintVisibility(setTyped(w, sliceDropLast(state.typed))),
                           TRUE, NoClick, FALSE)}
              [] OTHER ->
                   LET candidateTyped == Append(state.typed, key)
                       matchingHints ==
                           {h \in DOMAIN state.hints : startsWith(h, candidateTyped)}
                       w2 == setTyped(w, candidateTyped)
                   IN IF matchingHints = {}
                      THEN {Result(w, TRUE, NoClick, FALSE)}
                      ELSE IF Cardinality(matchingHints) = 1
                      THEN LET element == state.hints[CHOOSE h \in matchingHints : TRUE]
                           IN { IF o.thrown THEN Result(w2, TRUE, o.click, TRUE)
                                ELSE Result(hideHints(w2), TRUE, o.click, FALSE) :
                                  o \in executeClick(element, w2.HintState) }
                      ELSE {Result(updateHintVisibility(w2), TRUE, NoClick, FALSE)}

\* The lookup key: the ctrl/shift prefix joined to event.code with "+".
lookupKeyOf(event) ==
    LET modifierPrefix ==
            IF event.ctrlKey /\ event.shiftKey THEN "ctrl+shift"
            ELSE IF event.ctrlKey THEN "ctrl"
            ELSE IF event.shiftKey THEN "shift"
            ELSE ""
    IN IF modifierPrefix # "" THEN modifierPrefix \o "+" \o event.code ELSE event.code

handleInactiveState(event, w) ==
    LET lookupKey == lookupKeyOf(event)
    IN IF lookupKey \notin DOMAIN ActivationKeys
       THEN {Result(w, FALSE, NoClick, FALSE)}
       ELSE LET config == ActivationKeys[lookupKey]
                w2 == [w EXCEPT !.HintState =
                         [status |-> "active", clickMode |-> config.clickMode,
                          scope |-> config.scope, hints |-> EmptyMap,
                          overlays |-> <<>>, typed |-> <<>>]]
            IN IF getClickableElementsThrows(w2.HintState)
               THEN {Result(w2, TRUE, NoClick, TRUE)}
               ELSE {Result(showHints(w2), TRUE, NoClick, FALSE)}

\* The guard without the content-editable test.
isTextFocusTagsOnly(el) ==
    /\ ~el.isNull
    /\ \/ tagNameLower(el.tagName) = "input"
       \/ tagNameLower(el.tagName) = "textarea"

\* The guard of handleKeydown: an input, a textarea or a content-editable has focus.
isTextFocus(el) ==
    /\ ~el.isNull
    /\ \/ tagNameLower(el.tagName) = "input"
       \/ tagNameLower(el.tagName) = "textarea"
       \/ el.isContentEditable

\* handleKeydown that applies the focus guard only while no session is active.
handleKeydownGuardWhenInactive(event, w) ==
    IF isTextFocus(activeElement) /\ w.HintState.status = "inactive"
    THEN {Result(w, FALSE, NoClick, FALSE)}
    ELSE LET key == toLowerCase(event.key)
         IN IF w.HintState.status = "active"
            THEN handleActiveState(event, key, w)
            ELSE handleInactiveState(event, w)
\* handleKeydown that re-activates: an activation key pressed while a session
\* is active tears the session down and starts a new one.
handleKeydownReactivate(event, w) ==
    IF isTextFocus(activeElement)
    THEN {Result(w, FALSE, NoClick, FALSE)}
    ELSE LET key == toLowerCase(event.key)
         IN IF w.HintState.status = "active"
            THEN IF lookupKeyOf(event) \in DOMAIN ActivationKeys
                 THEN handleInactiveState(event, hideHints(w))
                 ELSE handleActiveState(event, key, w)
            ELSE handleInactiveState(event, w)

handleKeydown(event, w) ==
    IF isTextFocus(activeElement)
    THEN {Result(w, FALSE, NoClick, FALSE)}
    ELSE LET key == toLowerCase(event.key)
         IN IF w.HintState.status = "active"
            THEN handleActiveState(event, key, w)
            ELSE handleInactiveState(event, w)

\* Overlay nodes no longer referenced by the session or the container are garbage.
Live(w) ==
    Range(w.container) \cup
    (IF w.HintState.status = "active" THEN Range(w.HintState.overlays) ELSE {})

(***************************************************************************)
(* Actions.                                                                *)
(***************************************************************************)
\* The browser dispatches a keydown to the capturing listener.
Keydown ==
    /\ listening
    /\ \E event \in KeyboardEvents :
        \E r \in handleKeydown(event, World) :
            /\ HintState' = r.world.HintState
            /\ nodes' = [id \in Live(r.world) |-> r.world.nodes[id]]
            /\ containerExists' = r.world.containerExists
            /\ container' = r.world.container
            /\ lastEvent' = event
            /\ defaultPrevented' = r.defaultPrevented
            /\ lastClick' = r.click
            /\ thrown' = r.thrown
            /\ UNCHANGED <<href, page, activeElement, count, i, labels, pc>>
            /\ UNCHANGED configVars

\* Focus moves in the host page.
FocusChange ==
    /\ activeElement' \in FocusTargets \ {activeElement}
    /\ lastEvent' = NoEvent
    /\ defaultPrevented' = FALSE
    /\ lastClick' = NoClick
    /\ thrown' = FALSE
    /\ UNCHANGED <<href, page, HintState, nodes, containerExists, container,
                   count, i, labels, pc>>
    /\ UNCHANGED configVars

\* The host page changes its document.
DomChange ==
    /\ page' \in (DOMAIN Pages) \ {page}
    /\ lastEvent' = NoEvent
    /\ defaultPrevented' = FALSE
    /\ lastClick' = NoClick
    /\ thrown' = FALSE
    /\ UNCHANGED <<href, activeElement, HintState, nodes, containerExists, container,
                   count, i, labels, pc>>
    /\ UNCHANGED configVars

EngineInit ==
    /\ HintState = Inactive
    /\ nodes = EmptyMap
    /\ containerExists = FALSE
    /\ container = <<>>
    /\ lastEvent = NoEvent
    /\ defaultPrevented = FALSE
    /\ lastClick = NoClick
    /\ thrown = FALSE

Init ==
    /\ href \in Urls
    /\ page \in DOMAIN Pages
    /\ activeElement \in FocusTargets
    /\ EngineInit
    /\ count = 0 /\ i = 0 /\ labels = <<>> /\ pc = "idle"
    /\ ConfigIdle

Next == Keydown \/ FocusChange \/ DomChange

Spec == Init /\ [][Next]_vars

\* The content script on a page whose site configuration is the malformed one.
InitMalformed ==
    /\ href = [hostname |-> BrokenHost]
    /\ page \in DOMAIN Pages
    /\ activeElement \in FocusTargets
    /\ EngineInit
    /\ count = 0 /\ i = 0 /\ labels = <<>> /\ pc = "idle"
    /\ ConfigIdle

SpecMalformed == InitMalformed /\ [][Next]_vars

(***************************************************************************)
(* generateHintLabels run one loop iteration at a time, for every count    *)
(* up to MaxCount.                                                         *)
(***************************************************************************)
GenIterate ==
    /\ pc = "loop"
    /\ loopCondition(labels, count)
    /\ labels' = Append(labels, nextLabel(i))
    /\ i' = i + 1
    /\ UNCHANGED <<count, pc, href, page, activeElement, HintState, nodes,
                   containerExists, container, lastEvent, defaultPrevented,
                   lastClick, thrown>>
    /\ UNCHANGED configVars

GenReturn ==
    /\ pc = "loop"
    /\ ~loopCondition(labels, count)
    /\ pc' = "returned"
    /\ UNCHANGED <<count, i, labels, href, page, activeElement, HintState, nodes,
                   containerExists, container, lastEvent, defaultPrevented,
                   lastClick, thrown>>
    /\ UNCHANGED configVars

InitLabels ==
    /\ href = [hostname |-> ExampleHost]
    /\ page = 1
    /\ activeElement = [isNull |-> TRUE, tagName |-> "", isContentEditable |-> FALSE]
    /\ EngineInit
    /\ count \in 0..MaxCount \cup {LargeCount} /\ i = 0 /\ labels = <<>> /\ pc = "loop"
    /\ ConfigIdle

NextLabels == GenIterate \/ GenReturn

SpecLabels == InitLabels /\ [][NextLabels]_vars

(***************************************************************************)
(* Vocabulary of the properties.                                           *)
(***************************************************************************)
\* This step is one run of the keydown listener, on the event lastEvent'.
KeydownStep == lastEvent' # NoEvent

\* The key the listener's handlers see for the event of this step.
StepKey == toLowerCase(lastEvent'.key)

IsHintCharacter(key) == key \in Range(HintCharacters)

\* The labels of the session that start with the typed buffer followed by key.
Matching(key) ==
    {h \in DOMAIN HintState.hints : startsWith(h, Append(HintState.typed, key))}

\* The modifier set of an event.
Modifiers(event) ==
    (IF event.ctrlKey THEN {"ctrl"} ELSE {}) \cup
    (IF event.shiftKey THEN {"shift"} ELSE {}) \cup
    (IF event.altKey THEN {"alt"} ELSE {}) \cup
    (IF event.metaKey THEN {"meta"} ELSE {})

\* The event is one of the four documented activation combinations.
InActivationBinding(event) ==
    /\ event.code = "Semicolon"
    /\ Modifiers(event) \in {{}, {"shift"}, {"ctrl"}, {"ctrl", "shift"}}

NoOverlayMounted == container = <<>>

ProperPrefix(a, b) == Len(a) < Len(b) /\ startsWith(b, a)

(***************************************************************************)
(* Properties of generateHintLabels, under SpecLabels.                     *)
(***************************************************************************)
\* C1: for every n >= 0, no label returned by generateHintLabels(n) is a
\* proper prefix of another label of the same result.
C1_PrefixFree ==
    pc = "returned" =>
        \A a \in DOMAIN labels : \A b \in DOMAIN labels :
            ~ProperPrefix(labels[a], labels[b])

\* C2: for every n >= 0, generateHintLabels(n) returns exactly n labels,
\* pairwise distinct, each a non-empty string over the 17 HintCharacters.
C2_DistinctLabelsOverAlphabet ==
    pc = "returned" =>
        /\ Len(labels) = count
        /\ \A a \in DOMAIN labels : \A b \in DOMAIN labels :
               a # b => labels[a] # labels[b]
        /\ \A a \in DOMAIN labels :
               /\ Len(labels[a]) >= 1
               /\ \A k \in DOMAIN labels[a] : labels[a][k] \in Range(HintCharacters)

\* generateHintLabels has returned for a count above the alphabet size.
C2_Witness ==
    /\ pc = "returned"
    /\ count > base
    /\ Len(labels) = count
    /\ Len(labels[count]) = 2

(***************************************************************************)
(* Properties of the session, under Spec.                                  *)
(***************************************************************************)
\* C3: when the activation keydown finds zero visible candidates, the
\* session is Inactive after the keydown and no overlay is mounted.
C3_ZeroCandidatesStayInactive ==
    [][ ( /\ KeydownStep
          /\ HintState.status = "inactive"
          /\ ~isTextFocus(activeElement)
          /\ lookupKeyOf(lastEvent') \in DOMAIN ActivationKeys
          /\ getClickableElements(ActivationKeys[lookupKeyOf(lastEvent')]) = <<>> )
        => ( HintState'.status = "inactive" /\ container' = <<>> ) ]_vars

\* C4: in an Active session, an accepted character that makes the typed
\* buffer a prefix of exactly one label executes a click on the element
\* mapped to that label in the session's click mode (left: native click,
\* right: contextmenu event), and the session is then Inactive with zero
\* overlays mounted.
C4_UniqueMatchClicksAndEnds ==
    [][ ( /\ KeydownStep
          /\ HintState.status = "active"
          /\ ~isTextFocus(activeElement)
          /\ IsHintCharacter(StepKey)
          /\ Cardinality(Matching(StepKey)) = 1 )
        => ( /\ lastClick' =
                  [element |-> HintState.hints[CHOOSE h \in Matching(StepKey) : TRUE],
                   type |-> IF HintState.clickMode = "right" THEN "contextmenu"
                            ELSE "click"]
             /\ HintState'.status = "inactive"
             /\ container' = <<>> ) ]_vars

\* C5: when the click dispatched for a uniquely resolved label throws, the
\* session is still torn down: after the keydown handler the session is
\* Inactive and zero overlays remain mounted.
C5_TeardownAfterFailedClick ==
    [][ ( KeydownStep /\ thrown' )
        => ( HintState'.status = "inactive" /\ container' = <<>> ) ]_vars

\* C6 as stated: once a session is Active the text-focus guard is not
\* applied; with focus in an input, textarea or content-editable, hint
\* characters, backspace and escape are still consumed by the session.
C6_ActiveSessionIgnoresFocus ==
    [][ ( /\ KeydownStep
          /\ HintState.status = "active"
          /\ isTextFocus(activeElement)
          /\ (IsHintCharacter(StepKey) \/ StepKey \in {"escape", "backspace"}) )
        => defaultPrevented' ]_vars

\* C6 as amended: the text-focus guard is applied on every keydown, also
\* while a session is Active; with focus in an input, textarea or
\* content-editable, a keydown is not intercepted and leaves the session,
\* its overlays and the container unchanged, and executes no click.
C6_FocusGuardAppliesWhileActive ==
    [][ ( /\ KeydownStep
          /\ HintState.status = "active"
          /\ isTextFocus(activeElement) )
        => ( /\ ~defaultPrevented'
             /\ HintState' = HintState
             /\ nodes' = nodes
             /\ container' = container
             /\ lastClick' = NoClick ) ]_vars

\* An escape keydown has been delivered to an Active session with overlays
\* mounted while a text field has focus.
C6_Witness ==
    /\ HintState.status = "active"
    /\ container # <<>>
    /\ isTextFocus(activeElement)
    /\ lastEvent # NoEvent
    /\ toLowerCase(lastEvent.key) = "escape"

\* C7 as stated: in every reachable Active state an escape keydown makes
\* the session Inactive and leaves zero overlay nodes mounted.
C7_EscapeAlwaysEndsSession ==
    [][ ( /\ KeydownStep
          /\ HintState.status = "active"
          /\ StepKey = "escape" )
        => ( HintState'.status = "inactive" /\ container' = <<>> ) ]_vars

\* C7 as amended: in every reachable Active state in which no input,
\* textarea or content-editable has focus, an escape keydown makes the
\* session Inactive and leaves zero overlay nodes mounted, within that
\* handler invocation.
C7_EscapeEndsSessionUnlessTextFocus ==
    [][ ( /\ KeydownStep
          /\ HintState.status = "active"
          /\ ~isTextFocus(activeElement)
          /\ StepKey = "escape" )
        => ( HintState'.status = "inactive" /\ container' = <<>> /\ defaultPrevented' ) ]_vars

\* An escape keydown has just ended a session: it was intercepted (only an
\* Active session intercepts escape) and the container, once filled, is empty.
C7_Witness ==
    /\ lastEvent # NoEvent
    /\ toLowerCase(lastEvent.key) = "escape"
    /\ defaultPrevented
    /\ HintState.status = "inactive"
    /\ containerExists
    /\ container = <<>>

\* C8: in an Active session, an accepted character c for which typed+c is a
\* prefix of no label is discarded: typed, labelMap, the overlays and their
\* visibility are unchanged and the session remains Active.
C8_RejectedCharacterDiscarded ==
    [][ ( /\ KeydownStep
          /\ HintState.status = "active"
          /\ IsHintCharacter(StepKey)
          /\ Matching(StepKey) = {} )
        => ( /\ HintState' = HintState
             /\ nodes' = nodes
             /\ container' = container
             /\ lastClick' = NoClick ) ]_vars

\* A hint character that no label starts with has just been intercepted by
\* an Active session that has labels, after one character was accepted.
C8_Witness ==
    /\ HintState.status = "active"
    /\ lastEvent # NoEvent
    /\ defaultPrevented
    /\ IsHintCharacter(toLowerCase(lastEvent.key))
    /\ HintState.typed # <<>>
    /\ {h \in DOMAIN HintState.hints :
          startsWith(h, Append(HintState.typed, toLowerCase(lastEvent.key)))} = {}

\* C9: while the session is Inactive, a keydown whose key and modifier set
\* (control/shift/alt/meta) is not an entry of the ActivationBinding table
\* is never intercepted and the session stays Inactive.
C9_NonBindingNeverIntercepted ==
    [][ ( /\ KeydownStep
          /\ HintState.status = "inactive"
          /\ ~InActivationBinding(lastEvent') )
        => ( ~defaultPrevented' /\ HintState'.status = "inactive" ) ]_vars

\* C10: each of the four activation combinations starts a session with its
\* own pair: plain -> (left, configured), shift -> (right, configured),
\* ctrl -> (left, all), ctrl+shift -> (right, all).
C10_ActivationBindsPair ==
    [][ ( /\ KeydownStep
          /\ HintState.status = "inactive"
          /\ ~isTextFocus(activeElement)
          /\ InActivationBinding(lastEvent') )
        => ( /\ defaultPrevented'
             /\ getClickableElements(
                    [scope |-> IF lastEvent'.ctrlKey THEN "all" ELSE "configured"]) # <<>>
                  => HintState'.status = "active"
             /\ HintState'.status = "active"
                  => /\ HintState'.clickMode =
                          (IF lastEvent'.shiftKey THEN "right" ELSE "left")
                     /\ HintState'.scope =
                          (IF lastEvent'.ctrlKey THEN "all" ELSE "configured")
                     /\ HintState'.typed = <<>> ) ]_vars

\* ctrl+shift+; has just started a right-click session over all elements,
\* with labels mounted.
C10_Witness ==
    /\ lastEvent = KeyboardEvent("Semicolon", TRUE, TRUE, FALSE, FALSE)
    /\ HintState.status = "active"
    /\ HintState.clickMode = "right"
    /\ HintState.scope = "all"
    /\ DOMAIN HintState.hints # {}
    /\ Len(container) = Cardinality(DOMAIN HintState.hints)

\* C11: while the session is Active, a keydown that is neither a hint
\* character, escape nor backspace is not intercepted and leaves the session
\* state unchanged; only hint characters, escape and backspace are intercepted.
C11_OtherKeysPassThrough ==
    [][ ( KeydownStep /\ HintState.status = "active" )
        => ( /\ ( ~IsHintCharacter(StepKey) /\ StepKey \notin {"escape", "backspace"} )
                  => ( /\ ~defaultPrevented'
                       /\ HintState' = HintState
                       /\ nodes' = nodes
                       /\ container' = container
                       /\ lastClick' = NoClick )
             /\ defaultPrevented'
                  => ( IsHintCharacter(StepKey) \/ StepKey \in {"escape", "backspace"} ) ) ]_vars

\* A key outside the hint alphabet has just reached an Active session with
\* labels mounted and a non-empty typed buffer, no text field having focus,
\* and was not intercepted.
C11_Witness ==
    /\ HintState.status = "active"
    /\ ~isTextFocus(activeElement)
    /\ container # <<>>
    /\ HintState.typed # <<>>
    /\ lastEvent # NoEvent
    /\ toLowerCase(lastEvent.key) = "x"
    /\ ~defaultPrevented

\* C12: while the session is Inactive and an input, a textarea or a
\* content-editable element has focus, every keydown (also one matching an
\* ActivationBinding) is ignored: not intercepted, session stays Inactive.
C12_TextFocusSuppressesActivation ==
    [][ ( /\ KeydownStep
          /\ HintState.status = "inactive"
          /\ ~activeElement.isNull
          /\ \/ activeElement.tagName \in {"INPUT", "TEXTAREA"}
             \/ activeElement.isContentEditable )
        => ( /\ ~defaultPrevented'
             /\ HintState' = HintState
             /\ container' = container
             /\ lastClick' = NoClick ) ]_vars

\* The plain activation key has just been pressed in a content-editable
\* element on a page with candidates, and the session is Inactive.
C12_Witness ==
    /\ HintState.status = "inactive"
    /\ activeElement.isContentEditable
    /\ lastEvent = KeyboardEvent("Semicolon", FALSE, FALSE, FALSE, FALSE)
    /\ ~defaultPrevented
    /\ getClickableElements([scope |-> "configured"]) # <<>>

ActivationStep ==
    /\ KeydownStep
    /\ HintState.status = "inactive"
    /\ HintState'.status = "active"

\* The elements the new session has labelled.
LabelledNext == {HintState'.hints[h] : h \in DOMAIN HintState'.hints}

Labelled == {HintState.hints[h] : h \in DOMAIN HintState.hints}

\* The element is rendered with a non-empty box fully inside the viewport.
FullyVisible(e) ==
    /\ ElementProps(e).rect.width # 0
    /\ ElementProps(e).rect.height # 0
    /\ ElementProps(e).visibility # "hidden"
    /\ ElementProps(e).display # "none"
    /\ ElementProps(e).rect.top >= 0
    /\ ElementProps(e).rect.left >= 0
    /\ ElementProps(e).rect.top + ElementProps(e).rect.height <= Viewport.innerHeight
    /\ ElementProps(e).rect.left + ElementProps(e).rect.width <= Viewport.innerWidth

\* The configured popup selector matches a laid-out element of the document.
PopupActive == CurrentSiteConfig.popupSelector # "" /\ document.popup = "visible"

MatchesAny(e, selectors) == ElementProps(e).matches \cap Range(selectors) # {}

\* C14: when the configured popupSelector matches a laid-out element, a scan
\* returns only elements inside that popup matching the fixed menu-item
\* selectors, for both scopes alike, even when elements outside the popup
\* match the scope's selector list.
C14_PopupScopesScan ==
    [][ ( ActivationStep /\ PopupActive )
        => LabelledNext =
             { e \in Range(document.elements) :
                 /\ ElementProps(e).inPopup
                 /\ ElementProps(e).matches \cap
                      {"[role=\"menuitem\"]", "[role=\"option\"]", "a[href]", "button"} # {}
                 /\ FullyVisible(e) } ]_vars

\* A curated-scope activation with a visible popup has labelled the popup's
\* menu items only, although an element outside matches the curated list.
C14_Witness ==
    /\ HintState.status = "active"
    /\ HintState.scope = "configured"
    /\ PopupActive
    /\ lastEvent = KeyboardEvent("Semicolon", FALSE, FALSE, FALSE, FALSE)
    /\ Labelled # {}
    /\ \A e \in Labelled : ElementProps(e).inPopup
    /\ \E e \in Range(document.elements) :
          /\ ~ElementProps(e).inPopup
          /\ FullyVisible(e)
          /\ MatchesAny(e, CurrentSiteConfig.configuredSelectors)

\* C15: a scan never returns an element with zero rendered width or height,
\* visibility hidden, display none or a box not fully inside the viewport,
\* in the popup branch as in the document branch: every element of labelMap
\* passed the filter at scan time.
C15_OnlyVisibleElementsLabelled ==
    [][ ActivationStep => \A e \in LabelledNext : FullyVisible(e) ]_vars

\* A session has just been started on a document that holds matching
\* elements outside the viewport and hidden ones, none of them labelled.
C15_Witness ==
    /\ HintState.status = "active"
    /\ lastEvent # NoEvent
    /\ InActivationBinding(lastEvent)
    /\ Labelled # {}
    /\ \E e \in Range(document.elements) \ Labelled :
          /\ MatchesAny(e, CurrentSiteConfig.configuredSelectors)
          /\ ElementProps(e).rect.top < 0
    /\ \E e \in Range(document.elements) \ Labelled :
          /\ MatchesAny(e, CurrentSiteConfig.configuredSelectors)
          /\ ElementProps(e).visibility = "hidden"

\* C16: when no popup is active, the candidates of a scan are the elements
\* matching the selector list chosen by the session's scope: the curated list
\* for a curated-scope activation, the exhaustive list for an all-scope one.
C16_ScopeSelectsList ==
    [][ ( ActivationStep /\ ~PopupActive )
        => LabelledNext =
             { e \in Range(document.elements) :
                 /\ FullyVisible(e)
                 /\ MatchesAny(e, IF HintState'.scope = "configured"
                                  THEN CurrentSiteConfig.configuredSelectors
                                  ELSE CurrentSiteConfig.allSelectors) } ]_vars

\* An all-scope session has labelled an element that matches the exhaustive
\* list only.
C16_Witness ==
    /\ HintState.status = "active"
    /\ HintState.scope = "all"
    /\ ~PopupActive
    /\ lastEvent # NoEvent
    /\ InActivationBinding(lastEvent)
    /\ \E e \in Labelled :
          /\ MatchesAny(e, CurrentSiteConfig.allSelectors)
          /\ ~MatchesAny(e, CurrentSiteConfig.configuredSelectors)

\* The candidates of a scan for the given scope, in document order.
ScanCandidates(scope) ==
    LET Candidate(e) ==
            /\ FullyVisible(e)
            /\ IF PopupActive
               THEN ElementProps(e).inPopup /\ MatchesAny(e, MenuSelectors)
               ELSE MatchesAny(e, IF scope = "configured"
                                  THEN CurrentSiteConfig.configuredSelectors
                                  ELSE CurrentSiteConfig.allSelectors)
    IN SelectSeq(document.elements, Candidate)

\* On activation the k-th candidate of the scan gets the k-th generated label.
LabelsInDocumentOrder ==
    ActivationStep =>
        LET candidates == ScanCandidates(HintState'.scope)
        IN /\ DOMAIN HintState'.hints = {nextLabel(k - 1) : k \in DOMAIN candidates}
           /\ \A k \in DOMAIN candidates :
                 HintState'.hints[nextLabel(k - 1)] = candidates[k]
           /\ Len(candidates) >= 3 =>
                 /\ HintState'.hints[<<"a">>] = candidates[1]
                 /\ HintState'.hints[<<"s">>] = candidates[2]
                 /\ HintState'.hints[<<"d">>] = candidates[3]

\* With at most 17 candidates one keystroke of a label clicks its candidate
\* and clears the overlays.
SingleKeystrokeClicks ==
    ( /\ KeydownStep
      /\ HintState.status = "active"
      /\ ~isTextFocus(activeElement)
      /\ Cardinality(DOMAIN HintState.hints) <= 17
      /\ <<StepKey>> \in DOMAIN HintState.hints )
    => ( /\ lastClick'.element = HintState.hints[<<StepKey>>]
         /\ container' = <<>> )

\* C17: labels are assigned to candidates in document order (the k-th
\* candidate of the scan is mapped to the k-th generated label; 3 candidates
\* get a, s, d), and when there are at most 17 candidates a single keystroke
\* of a candidate's label clicks exactly that candidate and clears all
\* overlays.
C17_DocumentOrderSingleKeystroke ==
    [][ LabelsInDocumentOrder /\ SingleKeystrokeClicks ]_vars

\* The label of index j in bijective base-17 numeration, written out by
\* length: 17 labels of one character, 17^2 of two, 17^3 of three.
BijectiveLabel(j) ==
    LET B == 17
        digit(d) == HintCharacters[d + 1]
    IN IF j < B THEN <<digit(j)>>
       ELSE IF j < B + B * B
       THEN LET m == j - B
            IN <<digit(m \div B), digit(m % B)>>
       ELSE LET m == j - B - B * B
            IN <<digit(m \div (B * B)), digit((m \div B) % B), digit(m % B)>>

\* C18: generateHintLabels follows the bijective base-B scheme and returns
\* labels in non-decreasing length order: the label of index j is the
\* bijective numeral of j, the first 17 labels have one character and the
\* next 289 have two; for 20 candidates the labels are the 17 single
\* characters, then aa, as, ad.
C18_BijectiveNumeration ==
    pc = "returned" =>
        /\ Len(labels) = count
        /\ \A k \in DOMAIN labels : labels[k] = BijectiveLabel(k - 1)
        /\ \A k \in DOMAIN labels : \A m \in DOMAIN labels :
               k <= m => Len(labels[k]) <= Len(labels[m])
        /\ \A k \in DOMAIN labels :
               /\ k <= 17 => Len(labels[k]) = 1
               /\ (17 < k /\ k <= 17 + 289) => Len(labels[k]) = 2
        /\ count = 20 =>
               /\ \A k \in 1..17 : labels[k] = <<HintCharacters[k]>>
               /\ labels[18] = <<"a", "a">>
               /\ labels[19] = <<"a", "s">>
               /\ labels[20] = <<"a", "d">>

\* generateHintLabels has returned every one- and two-character label and
\* the first label of three characters.
C18_Witness ==
    /\ pc = "returned"
    /\ count > 17 + 289
    /\ Len(labels) = count
    /\ labels[18] = <<"a", "a">>
    /\ labels[17 + 289] = <<"p", "p">>
    /\ Len(labels[count]) = 3

\* C19: for every n with 0 <= n <= 17, every label returned by
\* generateHintLabels(n) has length 1.
C19_SingleCharacterUpToAlphabetSize ==
    ( pc = "returned" /\ count <= 17 ) =>
        /\ Len(labels) = count
        /\ \A k \in DOMAIN labels : Len(labels[k]) = 1

\* generateHintLabels has returned for a count equal to the alphabet size.
C19_Witness ==
    /\ pc = "returned"
    /\ count = 17
    /\ Len(labels) = 17
    /\ labels[17] = <<HintCharacters[17]>>

(***************************************************************************)
(* Configuration: page loads, and the settings popups writing the store.   *)
(***************************************************************************)
engineIdleVars == <<page, activeElement, HintState, nodes, containerExists,
                    container, lastEvent, defaultPrevented, lastClick, thrown>>

\* updateStatus
updateStatus(enabled) == IF enabled THEN "enabled" ELSE "disabled"

\* A page is loaded: the content script computes CurrentSiteConfig from the
\* location and, unless that threw, installs its keydown listener; getConfig
\* resolves the same location against the store.
PageLoad ==
    \E url \in ConfigUrls \cup {UnparseableLocation} :
        /\ href' = url
        /\ resolution' = getConfig(url, siteConfigs)
        /\ CurrentSiteConfig' = getConfigForUrl(url)
        /\ listening' = (getConfigForUrl(url) # TypeErrorThrown)
        /\ UNCHANGED <<siteConfigs, popups>>
        /\ UNCHANGED engineIdleVars
        /\ UNCHANGED labelVars

\* init() of a popup opened on the tab showing url.
PopupInit(p) ==
    \E url \in Urls :
        LET hostname == url.hostname
            storedConfig == getStoredConfig(siteConfigs, hostname)
            isEnabled == storedConfig = Null \/ storedConfig.enabled
        IN /\ popups[p].pc = "closed"
           /\ popups' = [popups EXCEPT ![p] =
                           [ pc |-> "idle", hostname |-> hostname, checked |-> isEnabled,
                             status |-> updateStatus(isEnabled), configs |-> EmptyStore,
                             before |-> NoHistory ]]
           /\ UNCHANGED <<href, siteConfigs, resolution, listening, CurrentSiteConfig>>
           /\ UNCHANGED engineIdleVars
           /\ UNCHANGED labelVars

\* The toggle is switched: the change listener calls setStoredConfig, which
\* reads the persisted map and waits.
ToggleChange(p) ==
    /\ popups[p].pc = "idle"
    /\ popups' = [popups EXCEPT ![p].checked = ~popups[p].checked,
                                ![p].configs = siteConfigs,
                                ![p].before =
                                    IF popups[p].checked
                                    THEN getStoredConfig(siteConfigs, popups[p].hostname)
                                    ELSE popups[p].before,
                                ![p].pc = "saving"]
    /\ UNCHANGED <<href, siteConfigs, resolution, listening, CurrentSiteConfig>>
    /\ UNCHANGED engineIdleVars
    /\ UNCHANGED labelVars

\* setStoredConfig updates the map it read and saves it; the listener then
\* updates the status text.
ToggleSave(p) ==
    LET enabled == popups[p].checked
    IN /\ popups[p].pc = "saving"
       /\ siteConfigs' = updateConfigs(popups[p].configs, popups[p].hostname,
                                       IF enabled THEN Null ELSE DisabledMarker)
       /\ popups' = [popups EXCEPT ![p].status = updateStatus(enabled),
                                   ![p].configs = EmptyStore,
                                   ![p].before =
                                       IF enabled THEN NoHistory
                                       ELSE popups[p].before,
                                   ![p].pc = "idle"]
       /\ UNCHANGED <<href, resolution, listening, CurrentSiteConfig>>
       /\ UNCHANGED engineIdleVars
       /\ UNCHANGED labelVars

\* The popup is closed.
PopupClose(p) ==
    /\ popups[p].pc = "idle"
    /\ popups' = [popups EXCEPT ![p] = ClosedPopup]
    /\ UNCHANGED <<href, siteConfigs, resolution, listening, CurrentSiteConfig>>
    /\ UNCHANGED engineIdleVars
    /\ UNCHANGED labelVars

InitConfig ==
    /\ href = [hostname |-> ExampleHost]
    /\ page = 1
    /\ activeElement = [isNull |-> TRUE, tagName |-> "", isContentEditable |-> FALSE]
    /\ EngineInit
    /\ count = 0 /\ i = 0 /\ labels = <<>> /\ pc = "idle"
    /\ siteConfigs \in Stores
    /\ popups = [p \in Popups |-> ClosedPopup]
    /\ resolution = Null
    /\ listening = FALSE
    /\ CurrentSiteConfig = Null

NextConfig ==
    \/ PageLoad
    \/ \E p \in Popups : PopupInit(p)
    \/ \E p \in Popups : ToggleChange(p)
    \/ \E p \in Popups : ToggleSave(p)
    \/ \E p \in Popups : PopupClose(p)

SpecConfig == InitConfig /\ [][NextConfig]_vars

\* This step is a page load that resolved the configuration.
PageLoadStep == resolution' # Null /\ (resolution = Null \/ href' # href \/ resolution' # resolution)

\* The engine's configuration is the resolved one: enabled, with the same
\* name, host pattern and popup selector.
UsesConfiguration(engineConfig, resolved) ==
    /\ resolved.enabled
    /\ engineConfig.name = resolved.name
    /\ engineConfig.urlPattern = resolved.urlPattern
    /\ engineConfig.popupSelector = resolved.popupSelector

\* The configuration the documented resolution order gives for a hostname.
ResolutionOrder(hostname, store) ==
    IF hostname \in DOMAIN store THEN store[hostname]
    ELSE IF includes(hostname, MusicHost) THEN BuiltInSiteConfigs[1]
    ELSE DefaultConfigEnabled

\* C20: configuration resolution for a page gives the persisted override of
\* the hostname if there is one, otherwise the first built-in configuration
\* whose urlPattern is contained in the hostname, otherwise the default, and
\* the configuration the hint engine uses is the result of this resolution.
C20_EngineUsesResolvedConfig ==
    [][ ( PageLoadStep /\ canParse(href') )
        => ( /\ resolution' = ResolutionOrder(href'.hostname, siteConfigs)
             /\ UsesConfiguration(CurrentSiteConfig', resolution') ) ]_vars

FreshActive ==
    /\ HintState.status = "active"
    /\ HintState.typed = <<>>
    /\ lastEvent # NoEvent
    /\ defaultPrevented
    /\ lookupKeyOf(lastEvent) \in DOMAIN ActivationKeys

\* A keydown of the hint character c, no modifier held.
CharacterEvent(c) ==
    [code |-> "", key |-> c, ctrlKey |-> FALSE, shiftKey |-> FALSE,
     altKey |-> FALSE, metaKey |-> FALSE]

RECURSIVE CanSelect(_, _)
\* Some sequence of hint characters typed into the session of world w ends
\* with the click executed on element.  A character that changes nothing is
\* left out of the sequence; every other one lengthens typed.
CanSelect(element, w) ==
    \E c \in Range(HintCharacters) :
        \E r \in handleActiveState(CharacterEvent(c), c, w) :
            \/ r.click.element = element
            \/ /\ r.click = NoClick
               /\ r.world # w
               /\ r.world.HintState.status = "active"
               /\ Len(r.world.HintState.typed) > Len(w.HintState.typed)
               /\ CanSelect(element, r.world)

\* C23: in a fresh Active session every element of labelMap is selectable:
\* for each label L there is a finite sequence of hint-alphabet keystrokes
\* (no escape) after which the click is executed on labelMap[L], also for
\* the single-character labels when there are more than 17 candidates.
C23_EveryLabelSelectable ==
    FreshActive =>
        \A L \in DOMAIN HintState.hints : CanSelect(HintState.hints[L], World)

\* After this step every overlay of the session is shown exactly when its
\* label starts with the typed buffer.
OverlaysRefreshedNext ==
    \A id \in Range(HintState'.overlays) :
        (nodes'[id].display # "none") <=> startsWith(nodes'[id].hint, HintState'.typed)

\* C24 as stated: in an Active session, when a hint character c makes
\* typed+c a prefix of two or more labels, typed becomes typed+c, every
\* overlay is shown exactly when its label starts with the new buffer, the
\* session stays Active and no click is executed.
C24_AmbiguousCharacterNarrows ==
    [][ ( /\ KeydownStep
          /\ HintState.status = "active"
          /\ IsHintCharacter(StepKey)
          /\ Cardinality(Matching(StepKey)) >= 2 )
        => ( /\ HintState'.status = "active"
             /\ HintState'.typed = Append(HintState.typed, StepKey)
             /\ OverlaysRefreshedNext
             /\ lastClick' = NoClick ) ]_vars

\* C24 as amended: the same, for a keydown received while no input, textarea
\* or content-editable element has focus; labelMap and the set of overlays
\* are unchanged.
C24_AmbiguousCharacterNarrowsUnlessTextFocus ==
    [][ ( /\ KeydownStep
          /\ HintState.status = "active"
          /\ ~isTextFocus(activeElement)
          /\ IsHintCharacter(StepKey)
          /\ Cardinality(Matching(StepKey)) >= 2 )
        => ( /\ HintState'.status = "active"
             /\ HintState'.typed = Append(HintState.typed, StepKey)
             /\ HintState'.hints = HintState.hints
             /\ HintState'.overlays = HintState.overlays
             /\ container' = container
             /\ OverlaysRefreshedNext
             /\ defaultPrevented'
             /\ lastClick' = NoClick ) ]_vars

\* An ambiguous character has just been accepted: overlays whose label
\* starts with it are shown, the others are hidden.
C24_Witness ==
    /\ HintState.status = "active"
    /\ lastEvent # NoEvent
    /\ defaultPrevented
    /\ HintState.typed = <<toLowerCase(lastEvent.key)>>
    /\ Cardinality({h \in DOMAIN HintState.hints : startsWith(h, HintState.typed)}) >= 2
    /\ \E id \in Range(HintState.overlays) : nodes[id].display = "block"
    /\ \E id \in Range(HintState.overlays) : nodes[id].display = "none"

\* C25 as stated: in an Active session, backspace removes the last character
\* of typed (typed stays empty when it is empty), refreshes overlay
\* visibility to match the shortened buffer, never executes a click and
\* never ends the session.
C25_BackspaceShortensTyped ==
    [][ ( /\ KeydownStep
          /\ HintState.status = "active"
          /\ StepKey = "backspace" )
        => ( /\ HintState'.status = "active"
             /\ HintState'.typed = sliceDropLast(HintState.typed)
             /\ OverlaysRefreshedNext
             /\ lastClick' = NoClick ) ]_vars

\* C25 as amended: the same, for a backspace received while no input,
\* textarea or content-editable element has focus; with such focus the
\* backspace is not intercepted and the session is unchanged.
C25_BackspaceShortensTypedUnlessTextFocus ==
    [][ ( /\ KeydownStep
          /\ HintState.status = "active"
          /\ StepKey = "backspace" )
        => ( /\ HintState'.status = "active"
             /\ lastClick' = NoClick
             /\ HintState'.hints = HintState.hints
             /\ HintState'.overlays = HintState.overlays
             /\ container' = container
             /\ IF isTextFocus(activeElement)
                THEN /\ ~defaultPrevented'
                     /\ HintState' = HintState
                     /\ nodes' = nodes
                ELSE /\ defaultPrevented'
                     /\ HintState'.typed =
                          ( IF HintState.typed = <<>> THEN <<>>
                            ELSE SubSeq(HintState.typed, 1, Len(HintState.typed) - 1) )
                     /\ OverlaysRefreshedNext ) ]_vars

\* A backspace has just emptied a typed buffer of one character: every
\* overlay of the session is shown again.
C25_Witness ==
    /\ HintState.status = "active"
    /\ lastEvent # NoEvent
    /\ toLowerCase(lastEvent.key) = "backspace"
    /\ defaultPrevented
    /\ HintState.typed = <<>>
    /\ Cardinality(DOMAIN HintState.hints) > 17
    /\ \A id \in Range(HintState.overlays) : nodes[id].display = "block"

\* C26: in every reachable state, when the session is Active the keys of
\* labelMap are exactly the labels carried by the session's overlays, one
\* overlay per label, and the nodes mounted in the container are exactly
\* those overlays; when the session is Inactive no overlay node is mounted.
C26_OverlaysMatchLabelMap ==
    /\ HintState.status = "active" =>
          /\ DOMAIN HintState.hints = {nodes[id].hint : id \in Range(HintState.overlays)}
          /\ \A k \in DOMAIN HintState.overlays : \A m \in DOMAIN HintState.overlays :
                nodes[HintState.overlays[k]].hint = nodes[HintState.overlays[m]].hint
                    => k = m
          /\ Range(container) = Range(HintState.overlays)
          /\ Len(container) = Len(HintState.overlays)
    /\ HintState.status = "inactive" => container = <<>>

\* An Active session with more labels than the alphabet has characters,
\* one mounted overlay per label, some of them hidden by the typed buffer.
C26_Witness ==
    /\ HintState.status = "active"
    /\ Cardinality(DOMAIN HintState.hints) > 17
    /\ Len(container) = Cardinality(DOMAIN HintState.hints)
    /\ container = HintState.overlays
    /\ HintState.typed # <<>>

\* C27: in every reachable Active state the typed buffer is a prefix of at
\* least one key of labelMap.
C27_TypedIsPrefixOfSomeLabel ==
    HintState.status = "active" =>
        \E h \in DOMAIN HintState.hints : startsWith(h, HintState.typed)

\* C28: in every reachable Active state with a non-empty typed buffer at
\* least two labels of labelMap start with typed; hence typed is strictly
\* shorter than the longest label.
C28_TypedIsAmbiguous ==
    ( HintState.status = "active" /\ HintState.typed # <<>> ) =>
        /\ Cardinality({h \in DOMAIN HintState.hints : startsWith(h, HintState.typed)}) >= 2
        /\ \E h \in DOMAIN HintState.hints : Len(HintState.typed) < Len(h)

\* C29: a click is executed only in the step where the typed buffer plus the
\* new character matches exactly one label (never on activation, a rejected
\* or ambiguous character, backspace, escape or a non-hint key), and at most
\* one click is executed between an activation and the next return to
\* Inactive: the step that clicks ends the session.
C29_ClickOnlyOnUniqueMatch ==
    [][ lastClick' # NoClick
        => ( /\ KeydownStep
             /\ HintState.status = "active"
             /\ IsHintCharacter(StepKey)
             /\ Cardinality(Matching(StepKey)) = 1
             /\ lastClick'.element = HintState.hints[CHOOSE h \in Matching(StepKey) : TRUE]
             /\ HintState'.status = "inactive" ) ]_vars

\* A context-menu click has just been dispatched by a hint character on a
\* document with more than 17 candidates, and the session is over.
C29_Witness ==
    /\ lastClick # NoClick
    /\ lastClick.type = "contextmenu"
    /\ lastEvent # NoEvent
    /\ IsHintCharacter(toLowerCase(lastEvent.key))
    /\ HintState.status = "inactive"
    /\ container = <<>>
    /\ lastClick.element \in Range(document.elements)
    /\ Len(document.elements) > 17
    /\ lastClick.element # document.elements[1]

(***************************************************************************)
(* Properties of the persisted store, under SpecConfig.                    *)
(***************************************************************************)
\* Popup p completes its setStoredConfig call in this step.
SaveStep(p) == popups[p].pc = "saving" /\ popups'[p].pc = "idle"

\* C30: two setStoredConfig calls for different hostnames whose storage reads
\* and writes interleave both take effect, no update is lost: the write that
\* completes a call stores the call's own entry and leaves the entry of every
\* other hostname as the store holds it, so that once both calls have
\* completed the persisted map reflects both updates.
C30_ConcurrentUpdatesBothKept ==
    [][ \A p \in Popups :
          SaveStep(p) =>
            /\ getStoredConfig(siteConfigs', popups[p].hostname) =
                 ( IF popups[p].checked THEN Null ELSE DisabledMarker )
            /\ \A u \in ConfigUrls :
                 u.hostname # popups[p].hostname =>
                   getStoredConfig(siteConfigs', u.hostname) =
                     getStoredConfig(siteConfigs, u.hostname) ]_vars

\* C32: switching the popup toggle off and then on again for a hostname is a
\* round trip on the persisted store: after the write that completes the
\* switch-on, the stored configuration of that hostname equals the one it had
\* before the switch-off, an enabled override with custom selectors or a
\* popup selector included.
C32_ToggleOffOnRoundTrip ==
    [][ \A p \in Popups :
          ( SaveStep(p) /\ popups[p].checked /\ popups[p].before # NoHistory )
            => getStoredConfig(siteConfigs', popups[p].hostname) =
                 popups[p].before ]_vars


(***************************************************************************)
(* The content script's run on a page, statement by statement, under       *)
(* SpecLoad.  The position of the script is read off its variables:        *)
(* CurrentSiteConfig = Null before its initialiser has run, listening      *)
(* once addEventListener has run; an initialiser that threw ends the       *)
(* script.  The store holds what the popups have written before the load.  *)
(***************************************************************************)
\* The documents the script is loaded on.
LoadPages == {2, 5}

\* The initialiser has produced a configuration.
Resolved(config) == config # Null /\ config # TypeErrorThrown

\* const CurrentSiteConfig = getConfigForUrl(window.location.href)
ScriptResolve ==
    /\ CurrentSiteConfig = Null
    /\ CurrentSiteConfig' = getConfigForUrl(href)
    /\ UNCHANGED <<href, siteConfigs, popups, resolution, listening>>
    /\ UNCHANGED engineIdleVars
    /\ UNCHANGED labelVars

\* The listener is installed with no configuration yet.
ScriptInstallUnresolved ==
    /\ ~listening
    /\ listening' = TRUE
    /\ UNCHANGED <<href, siteConfigs, popups, resolution, CurrentSiteConfig>>
    /\ UNCHANGED engineIdleVars
    /\ UNCHANGED labelVars

\* document.addEventListener("keydown", handleKeydown, true), the last
\* statement of the script
ScriptInstall ==
    /\ Resolved(CurrentSiteConfig)
    /\ ~listening
    /\ listening' = TRUE
    /\ UNCHANGED <<href, siteConfigs, popups, resolution, CurrentSiteConfig>>
    /\ UNCHANGED engineIdleVars
    /\ UNCHANGED labelVars

\* The tab navigates: the document, its listeners and the script's state are
\* discarded and the script starts again on the new location.
Navigate ==
    /\ CurrentSiteConfig # Null
    /\ href' \in ConfigUrls \cup {UnparseableLocation}
    /\ page' \in LoadPages
    /\ CurrentSiteConfig' = Null
    /\ listening' = FALSE
    /\ HintState' = Inactive
    /\ nodes' = EmptyMap
    /\ containerExists' = FALSE
    /\ container' = <<>>
    /\ lastEvent' = NoEvent
    /\ defaultPrevented' = FALSE
    /\ lastClick' = NoClick
    /\ thrown' = FALSE
    /\ UNCHANGED <<activeElement, siteConfigs, popups, resolution>>
    /\ UNCHANGED labelVars

InitLoad ==
    /\ href \in ConfigUrls \cup {UnparseableLocation}
    /\ page \in LoadPages
    /\ activeElement = [isNull |-> TRUE, tagName |-> "", isContentEditable |-> FALSE]
    /\ EngineInit
    /\ count = 0 /\ i = 0 /\ labels = <<>> /\ pc = "idle"
    /\ siteConfigs \in Stores
    /\ popups = [p \in Popups |-> ClosedPopup]
    /\ resolution = Null
    /\ listening = FALSE
    /\ CurrentSiteConfig = Null

NextLoad == ScriptResolve \/ ScriptInstall \/ Keydown \/ Navigate

SpecLoad == InitLoad /\ [][NextLoad]_vars

\* The store holds the disabled marker for the page's hostname.
DisabledForPage ==
    /\ canParse(href)
    /\ getStoredConfig(siteConfigs, href.hostname) = DisabledMarker

\* C31: when the persisted override for the page's hostname is the disabled
\* marker, the hint engine on that page never activates a session and never
\* intercepts a keydown.
C31_DisabledPageNeverActivates ==
    [][ ( KeydownStep /\ DisabledForPage )
        => ( /\ ~defaultPrevented'
             /\ HintState'.status = "inactive" ) ]_vars


\* C33: configuration resolution completes once and strictly before the
\* keydown dispatcher is installed: the listener is only ever installed with
\* a resolved configuration, every keydown is handled (and every session is
\* activated) with a resolved configuration, and once resolved the
\* configuration never changes while the page lives.
C33_ResolvedOnceBeforeDispatcher ==
    [][ /\ (~listening /\ listening') => Resolved(CurrentSiteConfig)
        /\ listening' => Resolved(CurrentSiteConfig')
        /\ KeydownStep => ( /\ listening
                            /\ Resolved(CurrentSiteConfig)
                            /\ CurrentSiteConfig' = CurrentSiteConfig )
        /\ (HintState'.status = "active") => Resolved(CurrentSiteConfig')
        /\ (CurrentSiteConfig # Null /\ CurrentSiteConfig' # Null)
              => CurrentSiteConfig' = CurrentSiteConfig ]_vars

\* A keydown has activated a session on a page whose script resolved its
\* configuration and then installed the dispatcher.
C33_Witness ==
    /\ listening
    /\ Resolved(CurrentSiteConfig)
    /\ lastEvent # NoEvent
    /\ HintState.status = "active"

====
